---- MODULE Spec2Model ----
(***************************************************************************)
(* Plan Day Bot: the Telegram dispatcher (app/telegram_bot.py), the        *)
(* generation gateway (app/services/llm.py), the plan builder              *)
(* (app/services/plan_builder.py) and the two data sources                 *)
(* (app/services/todoist.py, app/services/google_calendar.py).             *)
(*                                                                         *)
(* A text is a sequence of atoms.  The atom " " is one whitespace          *)
(* character; every other atom is a run of non-whitespace characters.      *)
(* Concatenation of texts is \o, str.strip() is Strip, truthiness of a     *)
(* str is "the sequence is not empty".  An Optional[T] is None or Some(x). *)
(* Each request handler is a coroutine; one step of the model runs a       *)
(* handler from one suspension point (an await on the network or on a      *)
(* worker thread) to the next.                                             *)
(***************************************************************************)
EXTENDS Integers, Sequences, FiniteSets, TLC

\* ------------------------------------------------------------------ bounds
MaxContentLen == 2
NumCalendars == 1
MaxItems == 2
MaxUpdates == 3

\* poll_updates awaits dispatch_message for one message after the other
Handlers == {1}
Users == {1, 2}

\* ------------------------------------------------------------ Optional[T]
None == [some |-> FALSE]
Some(x) == [some |-> TRUE, val |-> x]

\* ------------------------------------------------------------------ texts
WS == " "

RECURSIVE LStrip(_)
LStrip(s) == IF s # <<>> /\ Head(s) = WS THEN LStrip(Tail(s)) ELSE s

RECURSIVE RStrip(_)
RStrip(s) ==
    IF s # <<>> /\ s[Len(s)] = WS THEN RStrip(SubSeq(s, 1, Len(s) - 1)) ELSE s

Strip(s) == RStrip(LStrip(s))

\* the longest prefix of s without whitespace
RECURSIVE FirstWord(_)
FirstWord(s) ==
    IF s = <<>> \/ Head(s) = WS THEN <<>> ELSE <<Head(s)>> \o FirstWord(Tail(s))

\* str.lower(), atom by atom
LowerAtom(a) == IF a = "/PLAN" THEN "/plan" ELSE a
Lower(s) == [i \in 1..Len(s) |-> LowerAtom(s[i])]

\* atoms whose first character is "/"
SlashAtoms == {"/plan", "/PLAN", "/set_instructions", "/adjust_plan", "/start", "/foo"}
StartsWithSlash(s) == s # <<>> /\ Head(s) \in SlashAtoms

\* t occurs in s as a contiguous run of atoms
Contains(s, t) ==
    \E i \in 1..(Len(s) + 1) :
        /\ i + Len(t) - 1 <= Len(s)
        /\ SubSeq(s, i, i + Len(t) - 1) = t

\* all texts over the atoms of A of length at most n
TextsUpTo(A, n) == UNION {[1..k -> A] : k \in 0..n}

\* ------------------------------------------------------- fixed reply texts
MSG_INSTRUCTIONS_REMOVED == <<"Instructions removed.">>
MSG_INSTRUCTIONS_SAVED == <<"Instructions saved.">>
MSG_DESCRIBE_CHANGES == <<"Describe the changes to make to the schedule.">>
MSG_PLAN_FIRST == <<"First request a plan with /plan, then try again.">>
MSG_START == <<"Hi! Use /plan to get a plan for the day.">>
MSG_UNKNOWN == <<"Unknown command. Use /plan or /set_instructions.">>

PLAN_APOLOGY_HEAD == "Could not build the schedule with the model: "
ADJUST_APOLOGY_HEAD == "Could not apply the changes with the model: "
APOLOGY_TAIL == ". Try again later."

PlanApology(cause) == <<PLAN_APOLOGY_HEAD>> \o cause \o <<APOLOGY_TAIL>>
AdjustApology(cause) == <<ADJUST_APOLOGY_HEAD>> \o cause \o <<APOLOGY_TAIL>>

IsApology(t) ==
    t # <<>> /\ Head(t) \in {PLAN_APOLOGY_HEAD, ADJUST_APOLOGY_HEAD}

\* ----------------------------------------------------------- parse_command
\* message.get("text", "") of a message without a text key is ""
parse_command(message) ==
    LET text == message.text
        word == FirstWord(text)
        rest == LStrip(SubSeq(text, Len(word) + 1, Len(text)))
    IN  IF ~StartsWithSlash(text)
        THEN [command |-> <<>>, args |-> None]
        ELSE [command |-> Lower(word),
              args |-> IF rest # <<>> THEN Some(rest) ELSE None]

\* "if args:" / "if not args:" on an Optional[str]
Truthy(opt) == opt.some /\ opt.val # <<>>

\* ------------------------------------------------------------- JSON values
\* the value of a key of a JSON object: the key is missing, null, or a value
JMissing == [j |-> "missing"]
JNull == [j |-> "null"]
JVal(v) == [j |-> "value", v |-> v]

\* dict.get(key, default) as an Optional: None is Python's None
DictGet(j, default) ==
    IF j = JMissing THEN Some(default)
    ELSE IF j = JNull THEN None
    ELSE Some(j.v)

UNTITLED == <<"Untitled">>
UTC == "UTC"

\* an ISO date-time string: valid says whether datetime.fromisoformat accepts
\* it, t is the instant it denotes, offset the UTC offset it carries, if any
DtString(valid, t, offset) == [valid |-> valid, t |-> t, offset |-> offset]

\* --------------------------------------------------- services/todoist.py
\* _parse_datetime: None for an unparsable string, else an aware datetime
todoist_parse_datetime(value) ==
    IF ~value.valid THEN None
    ELSE Some([t |-> value.t,
               tz |-> IF value.offset.some THEN value.offset ELSE Some(UTC)])

\* the loop body of fetch_tasks followed by TodoistTask.to_plan_item
TodoistPlanItem(item) ==
    [type |-> "task",
     title |-> DictGet(item.content, UNTITLED),
     start |-> IF item.due.some THEN todoist_parse_datetime(item.due.val) ELSE None]

\* fetch_tasks: raise_for_status raises httpx.HTTPError on an error response
fetch_tasks(response) ==
    IF response.kind = "HTTPError"
    THEN [ok |-> FALSE, exc |-> "HTTPError"]
    ELSE [ok |-> TRUE,
          tasks |-> [i \in 1..Len(response.data) |-> TodoistPlanItem(response.data[i])]]

\* --------------------------------------------- services/google_calendar.py
NOT_FOUND == 404

\* start_str / end_str after the all-day completion: a 10 character string
\* is a date and gets a time and the UTC offset appended
CalendarDateTime(info) ==
    IF info.dateOnly THEN DtString(info.valid, info.t, Some(UTC)) ELSE info

\* _parse_datetime of google_calendar.py: raises ValueError when unparsable
calendar_parse_datetime(value) ==
    [t |-> value.t,
     tz |-> IF value.offset.some THEN value.offset ELSE Some(UTC)]

\* items of one calendar with both a start and an end string
CalendarUsable(item) == item.start.some /\ item.end.some

\* an item whose start or end string does not parse raises ValueError
CalendarItemRaises(item) ==
    /\ CalendarUsable(item)
    /\ \/ ~CalendarDateTime(item.start.val).valid
       \/ ~CalendarDateTime(item.end.val).valid

CalendarPlanItem(item) ==
    [type |-> "event",
     title |-> DictGet(item.summary, UNTITLED),
     start |-> Some(calendar_parse_datetime(CalendarDateTime(item.start.val))),
     end |-> Some(calendar_parse_datetime(CalendarDateTime(item.end.val)))]

\* sorted(events, key=lambda event: event.start): stable insertion sort
RECURSIVE InsertByStart(_, _)
InsertByStart(sorted, e) ==
    IF sorted = <<>> THEN <<e>>
    ELSE IF e.start.val.t < Head(sorted).start.val.t THEN <<e>> \o sorted
    ELSE <<Head(sorted)>> \o InsertByStart(Tail(sorted), e)

RECURSIVE SortByStart(_)
SortByStart(events) ==
    IF events = <<>> THEN <<>>
    ELSE InsertByStart(SortByStart(SubSeq(events, 1, Len(events) - 1)),
                       events[Len(events)])

RECURSIVE CalendarItems(_)
CalendarItems(items) ==
    IF items = <<>> THEN <<>>
    ELSE (IF CalendarUsable(Head(items)) THEN <<CalendarPlanItem(Head(items))>> ELSE <<>>)
         \o CalendarItems(Tail(items))

\* the calendars are read in the configured order; responses[i] is what the
\* Calendar API answers for calendar i.  A 404 skips the calendar; any other
\* HttpError, and a ValueError of _parse_datetime, leave fetch_events
RECURSIVE FetchFrom(_, _)
FetchFrom(responses, i) ==
    IF i > Len(responses) THEN [ok |-> TRUE, events |-> <<>>]
    ELSE LET r == responses[i]
             rest == FetchFrom(responses, i + 1)
         IN  IF r.kind = "HttpError"
             THEN IF r.status = NOT_FOUND THEN rest
                  ELSE [ok |-> FALSE, exc |-> "HttpError"]
             ELSE IF \E k \in 1..Len(r.items) : CalendarItemRaises(r.items[k])
             THEN [ok |-> FALSE, exc |-> "ValueError"]
             ELSE IF ~rest.ok THEN rest
             ELSE [ok |-> TRUE, events |-> CalendarItems(r.items) \o rest.events]

fetch_events(responses) ==
    LET res == FetchFrom(responses, 1)
    IN  IF res.ok THEN [ok |-> TRUE, events |-> SortByStart(res.events)] ELSE res

\* ------------------------------------------------ services/plan_builder.py
\* build_plan, the two loops: events first, then tasks; a task has no end
PlanSourceItems(tasks, events) ==
    [i \in 1..Len(events) |->
        [title |-> events[i].title, start |-> events[i].start,
         end |-> events[i].end, item_type |-> "event"]]
    \o
    [i \in 1..Len(tasks) |->
        [title |-> tasks[i].title, start |-> tasks[i].start,
         end |-> None, item_type |-> "task"]]

HasTz(dt) == dt.some /\ dt.val.tz.some

\* _detect_timezone that looks at the start of an item only
RECURSIVE _detect_timezone_StartOnly(_, _)
_detect_timezone_StartOnly(items, fallback) ==
    IF items = <<>> THEN fallback
    ELSE IF HasTz(Head(items).start) THEN Head(items).start.val.tz.val
    ELSE _detect_timezone_StartOnly(Tail(items), fallback)

RECURSIVE _detect_timezone(_, _)
_detect_timezone(items, fallback) ==
    IF items = <<>> THEN fallback
    ELSE IF HasTz(Head(items).start) THEN Head(items).start.val.tz.val
    ELSE IF HasTz(Head(items).end) THEN Head(items).end.val.tz.val
    ELSE _detect_timezone(Tail(items), fallback)

NOT_SPECIFIED == [text |-> "not specified"]
NO_EVENTS == <<[line |-> "- no events"]>>
NO_TASKS == <<[line |-> "1. No tasks, but add useful habits"]>>
NO_INSTRUCTIONS == <<"none">>

\* the instant shown in tzinfo, followed by the name of tzinfo
_format_datetime(value, tzinfo) ==
    IF ~value.some THEN NOT_SPECIFIED ELSE [t |-> value.val.t, tz |-> tzinfo]

\* f"{title}" of a title that is None is the text "None"
TitleText(title) == IF title.some THEN title.val ELSE <<"None">>

SelectType(items, type) == SelectSeq(items, LAMBDA it : it.item_type = type)

\* "instructions.strip() if instructions else <none>"
InstructionsBlock(instructions) ==
    IF Truthy(instructions) THEN Strip(instructions.val) ELSE NO_INSTRUCTIONS

\* _build_prompt without the sentinel lines: an empty block stays empty
_build_prompt_NoSentinel(now, timezone_info, tasks, events, instructions) ==
    LET event_lines ==
            [i \in 1..Len(events) |->
                [bullet |-> "-", title |-> TitleText(events[i].title),
                 from |-> _format_datetime(events[i].start, timezone_info),
                 to |-> _format_datetime(events[i].end, timezone_info)]]
        task_lines ==
            [i \in 1..Len(tasks) |->
                [idx |-> i, title |-> TitleText(tasks[i].title),
                 due |-> _format_datetime(tasks[i].start, timezone_info)]]
    IN  [kind |-> "build",
         tz_label |-> timezone_info,
         now_local |-> [t |-> now, tz |-> timezone_info],
         events_block |-> event_lines,
         tasks_block |-> task_lines,
         instructions_block |-> InstructionsBlock(instructions)]

_build_prompt(now, timezone_info, tasks, events, instructions) ==
    LET event_lines ==
            [i \in 1..Len(events) |->
                [bullet |-> "-", title |-> TitleText(events[i].title),
                 from |-> _format_datetime(events[i].start, timezone_info),
                 to |-> _format_datetime(events[i].end, timezone_info)]]
        task_lines ==
            [i \in 1..Len(tasks) |->
                [idx |-> i, title |-> TitleText(tasks[i].title),
                 due |-> _format_datetime(tasks[i].start, timezone_info)]]
    IN  [kind |-> "build",
         tz_label |-> timezone_info,
         now_local |-> [t |-> now, tz |-> timezone_info],
         events_block |-> IF event_lines # <<>> THEN event_lines ELSE NO_EVENTS,
         tasks_block |-> IF task_lines # <<>> THEN task_lines ELSE NO_TASKS,
         instructions_block |-> InstructionsBlock(instructions)]

\* the prompt build_plan hands to the gateway
build_plan_prompt(now, tasks, events, instructions) ==
    LET items == PlanSourceItems(tasks, events)
        tzinfo == _detect_timezone(items, UTC)
    IN  _build_prompt(now, tzinfo, SelectType(items, "task"),
                      SelectType(items, "event"), instructions)

\* the prompt revise_plan hands to the gateway
revise_plan_prompt(previous_plan, modifications, instructions) ==
    [kind |-> "revise",
     previous_plan |-> previous_plan,
     modifications |-> Strip(modifications),
     instructions_block |-> InstructionsBlock(instructions)]

\* ------------------------------------------------------- services/llm.py
MODEL == "mistralai/Mistral-7B-Instruct-v0.2"
GONE == 410
StatusCodes == {GONE, 500}

MODEL_GONE_MSG ==
    <<"Hugging Face model '", MODEL, "' is no longer available. ",
      "Update the HUGGINGFACE_MODEL environment variable.">>
EMPTY_RESPONSE_MSG == <<"Empty response from Hugging Face Router API">>
HTTP_ERROR_MSG == <<"transport error">>
STATUS_ERROR_MSG == <<"backend status error">>
OTHER_ERROR_MSG == <<"unexpected error">>

\* what the call in the worker thread does: it raises APIStatusError with a
\* status, raises another exception (httpx.HTTPError or one that is neither
\* that nor a ValueError), or returns a completion with its list of choices
ContentAtoms == {WS, "A"}
Completions ==
    {[kind |-> "completion", choices |-> <<>>],
     [kind |-> "completion", choices |-> <<[content |-> None]>>]}
    \cup {[kind |-> "completion", choices |-> <<[content |-> Some(t)]>>] :
            t \in TextsUpTo(ContentAtoms, MaxContentLen)}
BackendOutcomes ==
    {[kind |-> "APIStatusError", status |-> st] : st \in StatusCodes}
    \cup {[kind |-> "HTTPError"], [kind |-> "Exception"]}
    \cup Completions

Raise(exc, msg) == [ok |-> FALSE, exc |-> exc, msg |-> msg]
Return(text) == [ok |-> TRUE, text |-> text]

\* generate with "if generated is None" for "if not generated"
generate_NoneCheck(outcome) ==
    IF outcome.kind = "APIStatusError"
    THEN IF outcome.status = GONE
         THEN Raise("ValueError", MODEL_GONE_MSG)
         ELSE Raise("APIStatusError", STATUS_ERROR_MSG)
    ELSE IF outcome.kind = "HTTPError" THEN Raise("HTTPError", HTTP_ERROR_MSG)
    ELSE IF outcome.kind = "Exception" THEN Raise("Exception", OTHER_ERROR_MSG)
    ELSE LET generated ==
                 IF outcome.choices # <<>> THEN Head(outcome.choices).content ELSE None
         IN  IF ~generated.some
             THEN Raise("ValueError", EMPTY_RESPONSE_MSG)
             ELSE Return(Strip(generated.val))

\* generate that re-raises status 410 like every other status
generate_ReraisesGone(outcome) ==
    IF outcome.kind = "APIStatusError"
    THEN Raise("APIStatusError", STATUS_ERROR_MSG)
    ELSE IF outcome.kind = "HTTPError" THEN Raise("HTTPError", HTTP_ERROR_MSG)
    ELSE IF outcome.kind = "Exception" THEN Raise("Exception", OTHER_ERROR_MSG)
    ELSE LET generated ==
                 IF outcome.choices # <<>> THEN Head(outcome.choices).content ELSE None
         IN  IF ~Truthy(generated)
             THEN Raise("ValueError", EMPTY_RESPONSE_MSG)
             ELSE Return(Strip(generated.val))

generate(outcome) ==
    IF outcome.kind = "APIStatusError"
    THEN IF outcome.status = GONE
         THEN Raise("ValueError", MODEL_GONE_MSG)
         ELSE Raise("APIStatusError", STATUS_ERROR_MSG)
    ELSE IF outcome.kind = "HTTPError" THEN Raise("HTTPError", HTTP_ERROR_MSG)
    ELSE IF outcome.kind = "Exception" THEN Raise("Exception", OTHER_ERROR_MSG)
    ELSE LET generated ==
                 IF outcome.choices # <<>> THEN Head(outcome.choices).content ELSE None
         IN  IF ~Truthy(generated)
             THEN Raise("ValueError", EMPTY_RESPONSE_MSG)
             ELSE Return(Strip(generated.val))

\* ------------------------------------------------------------ dict helpers
DictGetKey(d, k) == IF k \in DOMAIN d THEN Some(d[k]) ELSE None
DictPut(d, k, v) == [x \in DOMAIN d \cup {k} |-> IF x = k THEN v ELSE d[x]]
DictPop(d, k) == [x \in DOMAIN d \ {k} |-> d[x]]
EmptyDict == [x \in {} |-> <<>>]

\* ------------------------------------------------------- telegram_bot.py
CMD_PLAN == <<"/plan">>
CMD_SET_INSTRUCTIONS == <<"/set_instructions">>
CMD_ADJUST_PLAN == <<"/adjust_plan">>
CMD_START == <<"/start">>
SEPARATOR == ". "

\* what a handler hands back to dispatch_message: the dictionary it wrote,
\* and either the text it returns or the exception it lets through
Returns(store, text) == [store |-> store, returns |-> Some(text), raised |-> FALSE]
Raises(store) == [store |-> store, returns |-> None, raised |-> TRUE]

\* the exception classes of "except (httpx.HTTPError, ValueError)"
CaughtExceptions == {"HTTPError", "ValueError"}

\* plan_instructions in which the arguments replace the stored instructions
plan_instructions_ArgsReplace(stored, args) ==
    IF Truthy(args) THEN args ELSE stored

\* handle_plan_command, lines 90-92
plan_instructions(stored, args) ==
    IF Truthy(args)
    THEN IF Truthy(stored)
         THEN Some(stored.val \o <<SEPARATOR>> \o args.val)
         ELSE args
    ELSE stored

\* handle_plan_result that stores the plan under every user id
handle_plan_result_EveryUser(plans, user_id, res) ==
    IF res.ok THEN Returns([u \in Users |-> res.text], res.text)
    ELSE IF res.exc \in CaughtExceptions THEN Returns(plans, PlanApology(res.msg))
    ELSE Raises(plans)

\* handle_plan_result with the apology stored as the last plan
handle_plan_result_StoresApology(plans, user_id, res) ==
    IF res.ok THEN Returns(DictPut(plans, user_id, res.text), res.text)
    ELSE IF res.exc \in CaughtExceptions
    THEN Returns(DictPut(plans, user_id, PlanApology(res.msg)), PlanApology(res.msg))
    ELSE Raises(plans)

\* handle_plan_result that returns the text without storing it
handle_plan_result_NoStore(plans, user_id, res) ==
    IF res.ok THEN Returns(plans, res.text)
    ELSE IF res.exc \in CaughtExceptions THEN Returns(plans, PlanApology(res.msg))
    ELSE Raises(plans)

\* handle_plan_command from the return of the gateway on: the try block
handle_plan_result(plans, user_id, res) ==
    IF res.ok THEN Returns(DictPut(plans, user_id, res.text), res.text)
    ELSE IF res.exc \in CaughtExceptions THEN Returns(plans, PlanApology(res.msg))
    ELSE Raises(plans)

\* handle_adjust_result that returns the revision and keeps the stored plan
handle_adjust_result_KeepsStored(plans, user_id, res) ==
    IF res.ok THEN Returns(plans, res.text)
    ELSE IF res.exc \in CaughtExceptions THEN Returns(plans, AdjustApology(res.msg))
    ELSE Raises(plans)

\* handle_adjust_result that drops the stored plan when the gateway fails
handle_adjust_result_DropsPlan(plans, user_id, res) ==
    IF res.ok THEN Returns(DictPut(plans, user_id, res.text), res.text)
    ELSE IF res.exc \in CaughtExceptions
    THEN Returns(DictPop(plans, user_id), AdjustApology(res.msg))
    ELSE Raises(DictPop(plans, user_id))

\* handle_adjust_plan_command from the return of the gateway on
handle_adjust_result(plans, user_id, res) ==
    IF res.ok THEN Returns(DictPut(plans, user_id, res.text), res.text)
    ELSE IF res.exc \in CaughtExceptions THEN Returns(plans, AdjustApology(res.msg))
    ELSE Raises(plans)

\* handle_set_instructions_command that confirms without removing
handle_set_instructions_command_KeepsOnEmpty(instructions, user_id, args) ==
    IF ~Truthy(args)
    THEN Returns(instructions, MSG_INSTRUCTIONS_REMOVED)
    ELSE Returns(DictPut(instructions, user_id, args.val), MSG_INSTRUCTIONS_SAVED)

handle_set_instructions_command(instructions, user_id, args) ==
    IF ~Truthy(args)
    THEN Returns(DictPop(instructions, user_id), MSG_INSTRUCTIONS_REMOVED)
    ELSE Returns(DictPut(instructions, user_id, args.val), MSG_INSTRUCTIONS_SAVED)

\* adjust_early_return with the two texts exchanged
adjust_early_return_WrongText(plans, user_id, args) ==
    IF ~Truthy(args) THEN Some(MSG_DESCRIBE_CHANGES)
    ELSE IF ~Truthy(DictGetKey(plans, user_id)) THEN Some(MSG_DESCRIBE_CHANGES)
    ELSE None

\* adjust_early_return with the stored plan looked up before the arguments
adjust_early_return_PlanFirst(plans, user_id, args) ==
    IF ~Truthy(DictGetKey(plans, user_id)) THEN Some(MSG_PLAN_FIRST)
    ELSE IF ~Truthy(args) THEN Some(MSG_DESCRIBE_CHANGES)
    ELSE None

\* handle_adjust_plan_command up to the gateway call: the text it returns at
\* once, or None when it goes on to revise_plan
adjust_early_return(plans, user_id, args) ==
    IF ~Truthy(args) THEN Some(MSG_DESCRIBE_CHANGES)
    ELSE IF ~Truthy(DictGetKey(plans, user_id)) THEN Some(MSG_PLAN_FIRST)
    ELSE None

\* ------------------------------------------------------------------ inputs
MessageTexts ==
    {<<"x">>,
     <<"/plan">>, <<"/PLAN", WS, "x">>,
     <<"/set_instructions">>, <<"/set_instructions", WS, "y", WS>>,
     <<"/adjust_plan", WS, WS>>, <<"/adjust_plan", WS, "x">>,
     <<"/start">>, <<"/foo", WS, "x">>}

\* private chats: the chat is the chat with the sender
Messages == {[from |-> u, chat |-> u, text |-> t] : u \in Users, t \in MessageTexts}

Clock == {1}
TASK_A == [id |-> "t1", content |-> JVal(<<"task">>), due |-> None]
EVENT_A ==
    [id |-> "e1", summary |-> JVal(<<"event">>),
     start |-> Some([dateOnly |-> FALSE, valid |-> TRUE, t |-> 1, offset |-> Some("MSK")]),
     end |-> Some([dateOnly |-> FALSE, valid |-> TRUE, t |-> 2, offset |-> Some("MSK")])]

TodoistResponses == {[kind |-> "HTTPError"], [kind |-> "ok", data |-> <<TASK_A>>]}
CalendarResponses ==
    {[kind |-> "HttpError", status |-> NOT_FOUND], [kind |-> "HttpError", status |-> 403],
     [kind |-> "ok", items |-> <<EVENT_A>>]}
CalendarIds == 1..NumCalendars
CalendarAnswers == [CalendarIds -> CalendarResponses]

\* ------------------------------------------------------------------- state
\* The locals of a handler are kept until dispatch_message is left.
VARIABLES
    USER_INSTRUCTIONS,  \* dict: user id -> standing instructions
    USER_LAST_PLANS,    \* dict: user id -> last plan text
    pc,                 \* where each handler is
    message,            \* the message the handler was given
    prompt,             \* the prompt in flight to the gateway
    response,           \* what the backend answered the generate() call
    result,             \* what generate() gave the handler
    outbox,             \* the send_message call in flight to the transport
    sends,              \* the number of send_message calls of the handler
    calls,              \* the number of generate() calls of the handler
    failed,             \* the sources whose fetch failed for the handler
    returned,           \* per user, the last text generate() returned for them
    cleared,            \* per user, the last /set_instructions had no text
    call,               \* a function of the plan builder or of a source, with
                        \* its arguments, called on its own
    value,              \* what that call returned
    poll_pc,            \* where poll_updates is
    offset,             \* the offset of poll_updates
    updates,            \* the updates of the last getUpdates still to loop over
    update,             \* the update whose message is being dispatched
    transport,          \* the Bot API: the updates it holds, the last id it gave
    dispatched          \* the update ids handed to dispatch_message, in order

vars == <<USER_INSTRUCTIONS, USER_LAST_PLANS, pc, message, prompt, response,
          result, outbox, sends, calls, failed, returned, cleared, call, value,
          poll_pc, offset, updates, update, transport, dispatched>>

\* the state of the dispatcher and of its handlers
dispatcher == <<USER_INSTRUCTIONS, USER_LAST_PLANS, pc, message, prompt, response,
                result, outbox, sends, calls, failed, returned, cleared>>

\* the state of poll_updates and of the transport it polls
poll == <<poll_pc, offset, updates, update, transport, dispatched>>

\* poll_updates at start-up; the transport holds no update
InitPoll ==
    /\ poll_pc = "getUpdates"
    /\ offset = None
    /\ updates = <<>>
    /\ update = None
    /\ transport = [pending |-> <<>>, last_id |-> 0, with_message |-> {}]
    /\ dispatched = <<>>

\* the process after start-up: both dictionaries empty, the handlers of H free
InitDispatcher(H) ==
    /\ USER_INSTRUCTIONS = EmptyDict
    /\ USER_LAST_PLANS = EmptyDict
    /\ pc = [r \in H |-> "idle"]
    /\ message = [r \in H |-> None]
    /\ prompt = [r \in H |-> None]
    /\ response = [r \in H |-> None]
    /\ result = [r \in H |-> None]
    /\ outbox = [r \in H |-> None]
    /\ sends = [r \in H |-> 0]
    /\ calls = [r \in H |-> 0]
    /\ failed = [r \in H |-> {}]
    /\ returned = [u \in Users |-> None]
    /\ cleared = [u \in Users |-> FALSE]

Init ==
    /\ InitDispatcher(Handlers)
    /\ call = None
    /\ value = None
    /\ InitPoll

UserOf(r) == message[r].val.from
CommandOf(r) == parse_command(message[r].val).command
ArgsOf(r) == parse_command(message[r].val).args

\* a message is handed to dispatch_message in a handler that is free
Arrives(r, m) ==
    /\ pc[r] = "idle"
    /\ message' = [message EXCEPT ![r] = Some(m)]

\* an exception leaves dispatch_message: its frame is dropped
Propagates(r) ==
    /\ pc' = [pc EXCEPT ![r] = "raised"]
    /\ message' = [message EXCEPT ![r] = None]
    /\ prompt' = [prompt EXCEPT ![r] = None]
    /\ outbox' = [outbox EXCEPT ![r] = None]

\* dispatch_message passes the text to send_message, which posts it and
\* awaits the answer of the transport
Sends(r, chat_id, text) ==
    /\ pc' = [pc EXCEPT ![r] = "send"]
    /\ outbox' = [outbox EXCEPT ![r] = Some([chat_id |-> chat_id, text |-> text])]
    /\ sends' = [sends EXCEPT ![r] = @ + 1]

\* dispatch_message, "/plan": handle_plan_command up to the await of fetch_tasks
DispatchPlan(r, m) ==
    /\ Arrives(r, m)
    /\ parse_command(m).command = CMD_PLAN
    /\ pc' = [pc EXCEPT ![r] = "fetch_tasks"]
    /\ UNCHANGED <<USER_INSTRUCTIONS, USER_LAST_PLANS, prompt, response, result, outbox,
                   sends, calls, failed,
                   returned, cleared, call, value, poll>>

\* fetch_tasks raises: line 73 is outside the try block
PlanTasksFail(r, resp) ==
    /\ pc[r] = "fetch_tasks"
    /\ ~fetch_tasks(resp).ok
    /\ Propagates(r)
    /\ failed' = [failed EXCEPT ![r] = {"todoist"}]
    /\ UNCHANGED <<USER_INSTRUCTIONS, USER_LAST_PLANS, response, result, sends, calls,
                   returned, cleared, call, value, poll>>

FailedCalendars(cal) == {i \in CalendarIds : cal[i].kind = "HttpError"}

\* fetch_tasks returns, fetch_events raises: lines 85-88 are outside the try
PlanEventsFail(r, resp, cal) ==
    /\ pc[r] = "fetch_tasks"
    /\ fetch_tasks(resp).ok
    /\ ~fetch_events(cal).ok
    /\ Propagates(r)
    /\ failed' = [failed EXCEPT ![r] = FailedCalendars(cal)]
    /\ UNCHANGED <<USER_INSTRUCTIONS, USER_LAST_PLANS, response, result, sends, calls,
                   returned, cleared, call, value, poll>>

\* PlanPrompt that saves the combined instructions as the standing ones
PlanPrompt_SavesCombined(r, resp, cal, now) ==
    /\ pc[r] = "fetch_tasks"
    /\ fetch_tasks(resp).ok
    /\ fetch_events(cal).ok
    /\ prompt' = [prompt EXCEPT ![r] =
          Some(build_plan_prompt(now, fetch_tasks(resp).tasks, fetch_events(cal).events,
                 plan_instructions(DictGetKey(USER_INSTRUCTIONS, UserOf(r)), ArgsOf(r))))]
    /\ USER_INSTRUCTIONS' =
          IF Truthy(ArgsOf(r))
          THEN DictPut(USER_INSTRUCTIONS, UserOf(r),
                 plan_instructions(DictGetKey(USER_INSTRUCTIONS, UserOf(r)), ArgsOf(r)).val)
          ELSE USER_INSTRUCTIONS
    /\ failed' = [failed EXCEPT ![r] = FailedCalendars(cal)]
    /\ pc' = [pc EXCEPT ![r] = "generate"]
    /\ calls' = [calls EXCEPT ![r] = @ + 1]
    /\ UNCHANGED <<USER_LAST_PLANS, message, response, result, outbox, sends,
                   returned, cleared, call, value, poll>>

\* both fetches return: the instructions are read, the prompt is rendered
\* and generate() is awaited
PlanPrompt(r, resp, cal, now) ==
    /\ pc[r] = "fetch_tasks"
    /\ fetch_tasks(resp).ok
    /\ fetch_events(cal).ok
    /\ prompt' = [prompt EXCEPT ![r] =
          Some(build_plan_prompt(now, fetch_tasks(resp).tasks, fetch_events(cal).events,
                 plan_instructions(DictGetKey(USER_INSTRUCTIONS, UserOf(r)), ArgsOf(r))))]
    /\ failed' = [failed EXCEPT ![r] = FailedCalendars(cal)]
    /\ pc' = [pc EXCEPT ![r] = "generate"]
    /\ calls' = [calls EXCEPT ![r] = @ + 1]
    /\ UNCHANGED <<USER_INSTRUCTIONS, USER_LAST_PLANS, message, response, result, outbox, sends,
                   returned, cleared, call, value, poll>>

\* what dispatch_message does with what a handler hands back
Handed(r, chat_id, h) ==
    IF h.raised
    THEN Propagates(r) /\ UNCHANGED sends
    ELSE Sends(r, chat_id, h.returns.val) /\ UNCHANGED <<message, prompt>>

\* generate() is left, with a text or with an exception
GatewayReturned(r, outcome, res) ==
    /\ response' = [response EXCEPT ![r] = Some(outcome)]
    /\ result' = [result EXCEPT ![r] = Some(res)]
    /\ returned' = [returned EXCEPT ![UserOf(r)] = IF res.ok THEN Some(res.text) ELSE @]

PlanGatewayReturns(r, outcome) ==
    /\ pc[r] = "generate"
    /\ CommandOf(r) = CMD_PLAN
    /\ LET res == generate(outcome)
           h == handle_plan_result(USER_LAST_PLANS, UserOf(r), res)
       IN  /\ GatewayReturned(r, outcome, res)
           /\ USER_LAST_PLANS' = h.store
           /\ Handed(r, message[r].val.chat, h)
    /\ UNCHANGED <<USER_INSTRUCTIONS, calls, failed, cleared, call, value, poll>>

DispatchSetInstructions(r, m) ==
    /\ Arrives(r, m)
    /\ parse_command(m).command = CMD_SET_INSTRUCTIONS
    /\ LET h == handle_set_instructions_command(USER_INSTRUCTIONS, m.from, parse_command(m).args)
       IN  /\ USER_INSTRUCTIONS' = h.store
           /\ Sends(r, m.chat, h.returns.val)
    /\ cleared' = [cleared EXCEPT ![m.from] = ~Truthy(parse_command(m).args)]
    /\ UNCHANGED <<prompt, USER_LAST_PLANS, response, result, calls, failed, returned, call, value, poll>>

\* "/adjust_plan" answered without the gateway
DispatchAdjustEarly(r, m) ==
    /\ Arrives(r, m)
    /\ parse_command(m).command = CMD_ADJUST_PLAN
    /\ LET early == adjust_early_return(USER_LAST_PLANS, m.from, parse_command(m).args)
       IN  /\ early.some
           /\ Sends(r, m.chat, early.val)
    /\ UNCHANGED <<prompt, USER_INSTRUCTIONS, USER_LAST_PLANS, response, result, calls, failed,
                   returned, cleared, call, value, poll>>

\* "/adjust_plan" with modifications and a stored plan: revise_plan is awaited
DispatchAdjustPrompt(r, m) ==
    /\ Arrives(r, m)
    /\ parse_command(m).command = CMD_ADJUST_PLAN
    /\ ~adjust_early_return(USER_LAST_PLANS, m.from, parse_command(m).args).some
    /\ prompt' = [prompt EXCEPT ![r] =
          Some(revise_plan_prompt(USER_LAST_PLANS[m.from], parse_command(m).args.val,
                                  DictGetKey(USER_INSTRUCTIONS, m.from)))]
    /\ pc' = [pc EXCEPT ![r] = "generate"]
    /\ calls' = [calls EXCEPT ![r] = @ + 1]
    /\ UNCHANGED <<USER_INSTRUCTIONS, USER_LAST_PLANS, response, result, outbox, sends, failed,
                   returned, cleared, call, value, poll>>

\* AdjustGatewayReturns that calls generate() again after a caught failure
AdjustGatewayReturns_Retries(r, outcome) ==
    /\ pc[r] = "generate"
    /\ CommandOf(r) = CMD_ADJUST_PLAN
    /\ LET res == generate(outcome)
           h == handle_adjust_result(USER_LAST_PLANS, UserOf(r), res)
       IN  /\ GatewayReturned(r, outcome, res)
           /\ USER_LAST_PLANS' = h.store
           /\ IF ~res.ok /\ res.exc \in CaughtExceptions /\ calls[r] < 2
              THEN /\ calls' = [calls EXCEPT ![r] = @ + 1]
                   /\ UNCHANGED <<pc, message, prompt, outbox, sends>>
              ELSE Handed(r, message[r].val.chat, h) /\ UNCHANGED calls
    /\ UNCHANGED <<USER_INSTRUCTIONS, failed, cleared, call, value, poll>>

AdjustGatewayReturns(r, outcome) ==
    /\ pc[r] = "generate"
    /\ CommandOf(r) = CMD_ADJUST_PLAN
    /\ LET res == generate(outcome)
           h == handle_adjust_result(USER_LAST_PLANS, UserOf(r), res)
       IN  /\ GatewayReturned(r, outcome, res)
           /\ USER_LAST_PLANS' = h.store
           /\ Handed(r, message[r].val.chat, h)
    /\ UNCHANGED <<USER_INSTRUCTIONS, calls, failed, cleared, call, value, poll>>

DispatchStart(r, m) ==
    /\ Arrives(r, m)
    /\ parse_command(m).command = CMD_START
    /\ Sends(r, m.chat, MSG_START)
    /\ UNCHANGED <<prompt, USER_INSTRUCTIONS, USER_LAST_PLANS, response, result, calls, failed,
                   returned, cleared, call, value, poll>>

DispatchUnknown(r, m) ==
    /\ Arrives(r, m)
    /\ parse_command(m).command \notin
          {CMD_PLAN, CMD_SET_INSTRUCTIONS, CMD_ADJUST_PLAN, CMD_START}
    /\ Sends(r, m.chat, MSG_UNKNOWN)
    /\ UNCHANGED <<prompt, USER_INSTRUCTIONS, USER_LAST_PLANS, response, result, calls, failed,
                   returned, cleared, call, value, poll>>

\* the transport answers send_message: raise_for_status raises on an error
\* answer; either way dispatch_message is left
SendMessage(r, delivered) ==
    /\ pc[r] = "send"
    /\ pc' = [pc EXCEPT ![r] = IF delivered THEN "done" ELSE "raised"]
    /\ outbox' = [outbox EXCEPT ![r] = None]
    /\ message' = [message EXCEPT ![r] = None]
    /\ response' = [response EXCEPT ![r] = None]
    /\ result' = [result EXCEPT ![r] = None]
    /\ prompt' = [prompt EXCEPT ![r] = None]
    /\ UNCHANGED <<USER_INSTRUCTIONS, USER_LAST_PLANS, sends,
                   calls, failed, returned, cleared, call, value, poll>>

\* the handler is free for the next message
Finish(r) ==
    /\ pc[r] \in {"done", "raised"}
    /\ pc' = [pc EXCEPT ![r] = "idle"]
    /\ response' = [response EXCEPT ![r] = None]
    /\ result' = [result EXCEPT ![r] = None]
    /\ sends' = [sends EXCEPT ![r] = 0]
    /\ calls' = [calls EXCEPT ![r] = 0]
    /\ failed' = [failed EXCEPT ![r] = {}]
    /\ UNCHANGED <<USER_INSTRUCTIONS, USER_LAST_PLANS, message, prompt, outbox,
                   returned, cleared, call, value, poll>>

Next ==
    \/ \E r \in Handlers, m \in Messages : DispatchPlan(r, m)
    \/ \E r \in Handlers, resp \in TodoistResponses : PlanTasksFail(r, resp)
    \/ \E r \in Handlers, resp \in TodoistResponses, cal \in CalendarAnswers :
          PlanEventsFail(r, resp, cal)
    \/ \E r \in Handlers, resp \in TodoistResponses, cal \in CalendarAnswers,
          now \in Clock : PlanPrompt(r, resp, cal, now)
    \/ \E r \in Handlers, outcome \in BackendOutcomes : PlanGatewayReturns(r, outcome)
    \/ \E r \in Handlers, m \in Messages : DispatchSetInstructions(r, m)
    \/ \E r \in Handlers, m \in Messages : DispatchAdjustEarly(r, m)
    \/ \E r \in Handlers, m \in Messages : DispatchAdjustPrompt(r, m)
    \/ \E r \in Handlers, outcome \in BackendOutcomes : AdjustGatewayReturns(r, outcome)
    \/ \E r \in Handlers, m \in Messages : DispatchStart(r, m)
    \/ \E r \in Handlers, m \in Messages : DispatchUnknown(r, m)
    \/ \E r \in Handlers, delivered \in BOOLEAN : SendMessage(r, delivered)
    \/ \E r \in Handlers : Finish(r)

Spec == Init /\ [][Next]_vars

\* ------------------------------------------------- concurrent handlers
\* Two coroutines run dispatch_message at the same time: the one poll_updates
\* awaits, and one a /webhook request awaits.  The messages, the answers of
\* the sources and of the backend are the ones that take both handlers
\* through their suspension points.
Poller == 1
Webhook == 2
Workers == {Poller, Webhook}

ConcurrentTexts ==
    {<<"/plan">>, <<"/adjust_plan", WS, "x">>, <<"/set_instructions", WS, "y", WS>>}
ConcurrentMessages ==
    {[from |-> u, chat |-> u, text |-> t] : u \in Users, t \in ConcurrentTexts}
ConcurrentOutcomes ==
    {[kind |-> "HTTPError"],
     [kind |-> "completion", choices |-> <<[content |-> Some(<<"A">>)]>>],
     [kind |-> "completion", choices |-> <<[content |-> Some(<<"A", "A">>)]>>]}
TODOIST_OK == [kind |-> "ok", data |-> <<TASK_A>>]
CALENDARS_OK == [i \in CalendarIds |-> [kind |-> "ok", items |-> <<EVENT_A>>]]

InitConcurrent ==
    /\ InitDispatcher(Workers)
    /\ call = None
    /\ value = None
    /\ InitPoll

\* dispatch_message(message) entered by handler r
dispatch_message(r, m) ==
    \/ DispatchPlan(r, m)
    \/ DispatchSetInstructions(r, m)
    \/ DispatchAdjustEarly(r, m)
    \/ DispatchAdjustPrompt(r, m)
    \/ DispatchStart(r, m)
    \/ DispatchUnknown(r, m)

NextConcurrent ==
    \/ \E r \in Workers, m \in ConcurrentMessages : DispatchPlan(r, m)
    \/ \E r \in Workers, now \in Clock : PlanPrompt(r, TODOIST_OK, CALENDARS_OK, now)
    \/ \E r \in Workers, outcome \in ConcurrentOutcomes : PlanGatewayReturns(r, outcome)
    \/ \E r \in Workers, m \in ConcurrentMessages : DispatchSetInstructions(r, m)
    \/ \E r \in Workers, m \in ConcurrentMessages : DispatchAdjustEarly(r, m)
    \/ \E r \in Workers, m \in ConcurrentMessages : DispatchAdjustPrompt(r, m)
    \/ \E r \in Workers, outcome \in ConcurrentOutcomes : AdjustGatewayReturns(r, outcome)
    \/ \E r \in Workers : SendMessage(r, TRUE)
    \/ \E r \in Workers : Finish(r)

SpecConcurrent == InitConcurrent /\ [][NextConcurrent]_vars

\* -------------------------------------------------------- poll_updates
\* The polling loop with the transport it polls and the handler it awaits.
\* The Bot API gives every update the next id, returns the updates from the
\* offset on in the order of their ids, and forgets those before the offset.
PollerTexts == {<<"/start">>, <<"/plan">>}
PollerMessages == {[from |-> 1, chat |-> 1, text |-> t] : t \in PollerTexts}
PollerOutcomes ==
    {[kind |-> "HTTPError"],
     [kind |-> "completion", choices |-> <<[content |-> Some(<<"A">>)]>>]}

\* an update of the transport: msg is what it has under "message", if anything
Update(id, msg) == [update_id |-> id, message |-> msg]

\* a user sends a message, or an update of another kind comes up
Arrival(msg) ==
    /\ transport.last_id < MaxUpdates
    /\ LET id == transport.last_id + 1
       IN  transport' =
               [pending |-> Append(transport.pending, Update(id, msg)),
                last_id |-> id,
                with_message |-> IF msg.some THEN transport.with_message \cup {id}
                                 ELSE transport.with_message]
    /\ UNCHANGED <<dispatcher, call, value, poll_pc, offset, updates, update, dispatched>>

\* getUpdates raises httpx.HTTPError: poll_updates sleeps and fetches again
\* and the offset is forgotten
GetUpdatesFails_ForgetsOffset ==
    /\ poll_pc = "getUpdates"
    /\ poll_pc' = "sleep"
    /\ offset' = None
    /\ UNCHANGED <<dispatcher, call, value, updates, update, transport, dispatched>>

\* getUpdates raises httpx.HTTPError: lines 31-33
GetUpdatesFails ==
    /\ poll_pc = "getUpdates"
    /\ poll_pc' = "sleep"
    /\ UNCHANGED <<dispatcher, call, value, offset, updates, update, transport, dispatched>>

\* asyncio.sleep(5) is over: continue
Wakes ==
    /\ poll_pc = "sleep"
    /\ poll_pc' = "getUpdates"
    /\ UNCHANGED <<dispatcher, call, value, offset, updates, update, transport, dispatched>>

\* the updates the transport still holds once those before off are confirmed
Unconfirmed(pending, off) ==
    SelectSeq(pending, LAMBDA u : ~off.some \/ u.update_id >= off.val)

\* getUpdates returns: some first updates from the offset on, possibly none
GetUpdatesReturns ==
    /\ poll_pc = "getUpdates"
    /\ LET left == Unconfirmed(transport.pending, offset)
       IN  /\ transport' = [transport EXCEPT !.pending = left]
           /\ \E n \in 0..Len(left) : updates' = SubSeq(left, 1, n)
    /\ poll_pc' = "loop"
    /\ UNCHANGED <<dispatcher, call, value, offset, update, dispatched>>

\* the loop body, lines 36-43, up to the call of dispatch_message
TakesUpdate ==
    /\ poll_pc = "loop"
    /\ updates # <<>>
    /\ LET u == Head(updates)
       IN  /\ offset' = Some(u.update_id + 1)
           /\ updates' = Tail(updates)
           /\ IF u.message.some
              THEN /\ update' = Some(u)
                   /\ poll_pc' = "dispatch"
                   /\ dispatched' = Append(dispatched, u.update_id)
              ELSE UNCHANGED <<update, poll_pc, dispatched>>
    /\ UNCHANGED <<dispatcher, call, value, transport>>

\* the for loop is through: back to getUpdates
LoopEnds ==
    /\ poll_pc = "loop"
    /\ updates = <<>>
    /\ poll_pc' = "getUpdates"
    /\ UNCHANGED <<dispatcher, call, value, offset, updates, update, transport, dispatched>>

\* dispatch_message is entered with the message of the update taken
Polled(m) ==
    /\ poll_pc = "dispatch"
    /\ pc[Poller] = "idle"
    /\ update.some /\ update.val.message = Some(m)

\* dispatch_message returned: the loop goes on
Resumes ==
    /\ poll_pc = "dispatch"
    /\ pc[Poller] = "done"
    /\ poll_pc' = "loop"
    /\ update' = None
    /\ pc' = [pc EXCEPT ![Poller] = "idle"]
    /\ response' = [response EXCEPT ![Poller] = None]
    /\ result' = [result EXCEPT ![Poller] = None]
    /\ sends' = [sends EXCEPT ![Poller] = 0]
    /\ calls' = [calls EXCEPT ![Poller] = 0]
    /\ failed' = [failed EXCEPT ![Poller] = {}]
    /\ UNCHANGED <<USER_INSTRUCTIONS, USER_LAST_PLANS, message, prompt, outbox,
                   returned, cleared, call, value, offset, updates, transport, dispatched>>

\* dispatch_message raised: nothing in poll_updates catches it, the task ends
Dies ==
    /\ poll_pc = "dispatch"
    /\ pc[Poller] = "raised"
    /\ poll_pc' = "dead"
    /\ update' = None
    /\ UNCHANGED <<dispatcher, call, value, offset, updates, transport, dispatched>>

NextPoller ==
    \/ \E msg \in {None} \cup {Some(m) : m \in PollerMessages} : Arrival(msg)
    \/ GetUpdatesFails
    \/ Wakes
    \/ GetUpdatesReturns
    \/ TakesUpdate
    \/ LoopEnds
    \/ \E m \in PollerMessages : Polled(m) /\ DispatchPlan(Poller, m)
    \/ \E m \in PollerMessages : Polled(m) /\ DispatchStart(Poller, m)
    \/ \E resp \in TodoistResponses : PlanTasksFail(Poller, resp)
    \/ \E resp \in TodoistResponses, now \in Clock :
          PlanPrompt(Poller, resp, CALENDARS_OK, now)
    \/ \E outcome \in PollerOutcomes : PlanGatewayReturns(Poller, outcome)
    \/ \E delivered \in BOOLEAN : SendMessage(Poller, delivered)
    \/ Resumes
    \/ Dies

SpecPoller == Init /\ [][NextPoller]_vars

\* ------------------------------------------- the functions on their own
\* The timezone resolver and the normalisation of a raw task or event,
\* applied to arguments of their declared types.

\* Optional[datetime]: None, a naive datetime, or an aware one
Zones == {"MSK", "EST"}
DateTimes ==
    {None, Some([t |-> 1, tz |-> None])} \cup {Some([t |-> 1, tz |-> Some(z)]) : z \in Zones}

\* PlanSourceItem(title, start, end, item_type)
SourceItems ==
    {[title |-> Some(<<"item">>), start |-> st, end |-> en, item_type |-> "event"] :
        st \in DateTimes, en \in DateTimes}
ItemLists == UNION {[1..n -> SourceItems] : n \in 0..MaxItems}
Fallbacks == {UTC, "MSK"}

\* the value of a JSON title key: missing, null, "" or a text
RawTitles == {JMissing, JNull, JVal(<<>>), JVal(<<"title">>)}
ISO_AWARE == [dateOnly |-> FALSE, valid |-> TRUE, t |-> 1, offset |-> Some("MSK")]
ISO_NAIVE == [dateOnly |-> FALSE, valid |-> TRUE, t |-> 1, offset |-> None]
ISO_DATE == [dateOnly |-> TRUE, valid |-> TRUE, t |-> 1, offset |-> None]
RawTasks ==
    {[id |-> "t", content |-> c, due |-> d] :
        c \in RawTitles,
        d \in {None, Some(DtString(TRUE, 1, Some("MSK"))), Some(DtString(TRUE, 1, None)),
                Some(DtString(FALSE, 0, None))}}
RawEvents ==
    {[id |-> "e", summary |-> c, start |-> Some(st), end |-> Some(en)] :
        c \in RawTitles, st \in {ISO_AWARE, ISO_NAIVE, ISO_DATE}, en \in {ISO_AWARE, ISO_DATE}}

\* the dicts of to_plan_item that build_plan is given
TaskDicts ==
    {[type |-> "task", title |-> Some(<<n>>), start |-> None] : n \in {"t1", "t2"}}
EventDicts ==
    {[type |-> "event", title |-> Some(<<n>>),
      start |-> Some([t |-> 1, tz |-> Some("MSK")]),
      end |-> Some([t |-> 2, tz |-> Some("MSK")])] : n \in {"e1", "e2"}}
ListsOf(S) == UNION {[1..n -> S] : n \in 0..MaxItems}

FunctionCalls ==
    {[fn |-> "_detect_timezone", items |-> l, fallback |-> f] :
        l \in ItemLists, f \in Fallbacks}
    \cup {[fn |-> "build_plan", tasks |-> t, events |-> e] :
            t \in ListsOf(TaskDicts), e \in ListsOf(EventDicts)}
    \cup {[fn |-> "task_item", raw |-> t] : t \in RawTasks}
    \cup {[fn |-> "event_item", raw |-> e] : e \in RawEvents}

InitFunctions ==
    /\ InitDispatcher(Handlers)
    /\ call \in {Some(c) : c \in FunctionCalls}
    /\ value = None
    /\ InitPoll

\* PlanBuilder._detect_timezone(items, fallback)
DetectTimezone ==
    /\ call.some /\ ~value.some
    /\ call.val.fn = "_detect_timezone"
    /\ value' = Some(_detect_timezone(call.val.items, call.val.fallback))
    /\ UNCHANGED <<dispatcher, call, poll>>

\* a raw Todoist task through fetch_tasks, to_plan_item and the task loop of
\* build_plan: the planning item it becomes
TaskItem ==
    /\ call.some /\ ~value.some
    /\ call.val.fn = "task_item"
    /\ value' = Some(PlanSourceItems(
                        fetch_tasks([kind |-> "ok", data |-> <<call.val.raw>>]).tasks,
                        <<>>)[1])
    /\ UNCHANGED <<dispatcher, call, poll>>

\* a raw calendar event through fetch_events, to_plan_item and the event
\* loop of build_plan
EventItem ==
    /\ call.some /\ ~value.some
    /\ call.val.fn = "event_item"
    /\ value' = Some(PlanSourceItems(
                        <<>>,
                        fetch_events(<<[kind |-> "ok", items |-> <<call.val.raw>>]>>).events)[1])
    /\ UNCHANGED <<dispatcher, call, poll>>

\* build_plan up to the prompt it renders
BuildPrompt ==
    /\ call.some /\ ~value.some
    /\ call.val.fn = "build_plan"
    /\ \E now \in Clock :
          value' = Some(build_plan_prompt(now, call.val.tasks, call.val.events, None))
    /\ UNCHANGED <<dispatcher, call, poll>>

NextFunctions ==
    \/ DetectTimezone
    \/ BuildPrompt
    \/ TaskItem
    \/ EventItem

SpecFunctions == InitFunctions /\ [][NextFunctions]_vars

\* ------------------------------------------------------------- properties
\* the step in which generate() is left by handler r
GatewayStep(r) == pc[r] = "generate" /\ pc'[r] # "generate"
GatewayFailed(r) == result[r].some /\ ~result[r].val.ok
\* the step in which handler r is given a message
ArrivalStep(r) == pc[r] = "idle" /\ pc'[r] # "idle"
IsPlan(r) == message[r].some /\ CommandOf(r) = CMD_PLAN
IsAdjust(r) == message[r].some /\ CommandOf(r) = CMD_ADJUST_PLAN
Answering(r, text) == outbox[r].some /\ outbox[r].val.text = text

\* C1: in every reachable state the stored last plan of every user is absent
\* or is the text the gateway last returned as a success for a BuildPlan or
\* AdjustPlan request of that user; it is never an apology, a corrective
\* message or another failure text.
C1_LastPlanIsGatewayText ==
    \A u \in Users :
        u \in DOMAIN USER_LAST_PLANS =>
            /\ returned[u] = Some(USER_LAST_PLANS[u])
            /\ ~IsApology(USER_LAST_PLANS[u])
            /\ USER_LAST_PLANS[u] \notin {MSG_DESCRIBE_CHANGES, MSG_PLAN_FIRST}

\* a user has a stored plan while a later build of theirs is answered with
\* an apology
C1_Witness ==
    \E r \in Handlers :
        /\ IsPlan(r) /\ GatewayFailed(r) /\ pc[r] = "send"
        /\ IsApology(outbox[r].val.text)
        /\ UserOf(r) \in DOMAIN USER_LAST_PLANS

\* C2: in the step in which the gateway call of a BuildPlan or AdjustPlan
\* request fails (any exception of generate), the stored last plans are left
\* as they were.
C2_FailureKeepsLastPlan ==
    [][\A r \in Handlers :
            (GatewayStep(r) /\ result'[r].some /\ ~result'[r].val.ok)
                => USER_LAST_PLANS' = USER_LAST_PLANS]_vars

\* a build stored plan A, a later adjust failed, the stored plan is still A
C2_Witness ==
    \E r \in Handlers :
        /\ IsAdjust(r) /\ GatewayFailed(r)
        /\ DictGetKey(USER_LAST_PLANS, UserOf(r)) = Some(<<"A">>)

\* C3: every message handed to dispatch_message leads to one call of
\* send_message: a handler that has left dispatch_message has called it once.
C3_EveryMessageAnswered ==
    \A r \in Handlers : pc[r] \in {"done", "raised"} => sends[r] = 1

\* C4: every failure of the gateway is caught by the handler and answered
\* with an apology that embeds the cause; none leaves the handler as an
\* exception.
C4_GatewayFailuresBecomeApologies ==
    \A r \in Handlers :
        GatewayFailed(r) =>
            /\ sends[r] = 1
            /\ pc[r] = "send" =>
                  /\ IsApology(outbox[r].val.text)
                  /\ Contains(outbox[r].val.text, result[r].val.msg)

\* a completion without usable text: no choices, no content, or content ""
NoUsableText(c) ==
    /\ c.kind = "completion"
    /\ \/ c.choices = <<>>
       \/ ~Head(c.choices).content.some
       \/ Head(c.choices).content.val = <<>>

\* C5: when the backend call returns a completion without usable text (no
\* choices, no content, or the empty string), generate raises the empty-result
\* ValueError and returns no text.
C5_EmptyResultFails ==
    \A r \in Handlers :
        (response[r].some /\ NoUsableText(response[r].val)) =>
            result[r] = Some(Raise("ValueError", EMPTY_RESPONSE_MSG))

C5_Witness ==
    \E r \in Handlers :
        /\ response[r] = Some([kind |-> "completion", choices |-> <<[content |-> Some(<<>>)]>>])
        /\ result[r] = Some(Raise("ValueError", EMPTY_RESPONSE_MSG))

\* C6: an /adjust_plan with modifications for a user without a stored plan
\* is answered with the "plan first" message, calls the gateway not at all
\* and leaves the user without a stored plan.
C6_AdjustWithoutPlan ==
    [][\A r \in Handlers :
            (/\ ArrivalStep(r)
             /\ parse_command(message'[r].val).command = CMD_ADJUST_PLAN
             /\ Truthy(parse_command(message'[r].val).args)
             /\ message'[r].val.from \notin DOMAIN USER_LAST_PLANS)
            => /\ outbox'[r] = Some([chat_id |-> message'[r].val.chat,
                                     text |-> MSG_PLAN_FIRST])
               /\ calls'[r] = 0
               /\ pc'[r] = "send"
               /\ message'[r].val.from \notin DOMAIN USER_LAST_PLANS']_vars

C6_Witness ==
    \E r \in Handlers :
        /\ IsAdjust(r) /\ Truthy(ArgsOf(r))
        /\ Answering(r, MSG_PLAN_FIRST)
        /\ calls[r] = 0
        /\ UserOf(r) \notin DOMAIN USER_LAST_PLANS

\* C7: an /adjust_plan without modification text is answered with the
\* "describe the changes" message, whether or not the user has a stored plan;
\* it calls the gateway not at all and changes neither dictionary.
C7_AdjustWithoutText ==
    [][\A r \in Handlers :
            (/\ ArrivalStep(r)
             /\ parse_command(message'[r].val).command = CMD_ADJUST_PLAN
             /\ ~Truthy(parse_command(message'[r].val).args))
            => /\ outbox'[r] = Some([chat_id |-> message'[r].val.chat,
                                     text |-> MSG_DESCRIBE_CHANGES])
               /\ calls'[r] = 0
               /\ pc'[r] = "send"
               /\ USER_LAST_PLANS' = USER_LAST_PLANS
               /\ USER_INSTRUCTIONS' = USER_INSTRUCTIONS]_vars

C7_Witness ==
    \E r \in Handlers :
        /\ IsAdjust(r) /\ ~Truthy(ArgsOf(r))
        /\ Answering(r, MSG_DESCRIBE_CHANGES)
        /\ calls[r] = 0
        /\ UserOf(r) \in DOMAIN USER_LAST_PLANS

\* C8: in the step in which the gateway call of a BuildPlan or AdjustPlan
\* request of user u returns text T, T becomes the stored last plan of u,
\* whatever was stored before, and T is the text passed to send_message for
\* the chat of the request.
C8_SuccessStoresAndReturns ==
    [][\A r \in Handlers :
            (GatewayStep(r) /\ result'[r].some /\ result'[r].val.ok)
            => /\ DictGetKey(USER_LAST_PLANS', UserOf(r)) = Some(result'[r].val.text)
               /\ outbox'[r] = Some([chat_id |-> message[r].val.chat,
                                     text |-> result'[r].val.text])]_vars

\* an adjust returned AA and AA is stored and on its way to the chat
C8_Witness ==
    \E r \in Handlers :
        /\ IsAdjust(r) /\ result[r] = Some(Return(<<"A", "A">>))
        /\ USER_LAST_PLANS[UserOf(r)] = <<"A", "A">>
        /\ Answering(r, <<"A", "A">>)

\* C9: a /set_instructions without text removes the stored instructions of
\* the user, and as long as no other /set_instructions of the user follows, a
\* /plan without arguments renders a prompt whose instructions are "none".
C9_ClearedInstructions ==
    [][\A r \in Handlers :
            /\ (/\ ArrivalStep(r)
                /\ parse_command(message'[r].val).command = CMD_SET_INSTRUCTIONS
                /\ ~Truthy(parse_command(message'[r].val).args))
               => message'[r].val.from \notin DOMAIN USER_INSTRUCTIONS'
            /\ (/\ pc[r] = "fetch_tasks" /\ pc'[r] = "generate"
                /\ ~Truthy(ArgsOf(r))
                /\ cleared[UserOf(r)])
               => prompt'[r].val.instructions_block = NO_INSTRUCTIONS]_vars

C9_Witness ==
    \E r \in Handlers :
        /\ IsPlan(r) /\ ~Truthy(ArgsOf(r)) /\ pc[r] = "generate"
        /\ cleared[UserOf(r)]
        /\ prompt[r].val.instructions_block = NO_INSTRUCTIONS

\* C10: a source whose fetch fails never aborts BuildPlan: the handler still
\* calls the gateway.
C10_SourceFailureNeverAborts ==
    \A r \in Handlers : failed[r] # {} => calls[r] = 1

\* C15: when the backend rejects the call with status 410, generate raises
\* a ValueError whose message names the model and tells to update the
\* configured model identifier, and the handler answers with the apology that
\* embeds that message.
C15_ModelGoneReachesUser ==
    \A r \in Handlers :
        (response[r].some /\ response[r].val = [kind |-> "APIStatusError", status |-> GONE])
        => /\ result[r].some /\ ~result[r].val.ok
           /\ result[r].val.exc = "ValueError"
           /\ Contains(result[r].val.msg, <<MODEL>>)
           /\ Contains(result[r].val.msg,
                       <<"Update the HUGGINGFACE_MODEL environment variable.">>)
           /\ pc[r] = "send"
           /\ IsApology(outbox[r].val.text)
           /\ Contains(outbox[r].val.text, result[r].val.msg)

C15_Witness ==
    \E r \in Handlers :
        /\ IsPlan(r)
        /\ response[r] = Some([kind |-> "APIStatusError", status |-> GONE])
        /\ Answering(r, PlanApology(MODEL_GONE_MSG))

\* C16: the standing instructions of user u change only in the step in which
\* a /set_instructions message of u is dispatched; /plan with or without
\* arguments, /adjust_plan and every other message leave them as they were.
C16_OnlySetInstructionsWrites ==
    [][\A u \in Users :
            DictGetKey(USER_INSTRUCTIONS', u) # DictGetKey(USER_INSTRUCTIONS, u)
            => \E r \in Handlers :
                  /\ ArrivalStep(r)
                  /\ message'[r].val.from = u
                  /\ parse_command(message'[r].val).command = CMD_SET_INSTRUCTIONS]_vars

\* a /plan with arguments of a user with standing instructions got its plan,
\* and the standing instructions are the ones that were saved
C16_Witness ==
    \E r \in Handlers :
        /\ IsPlan(r) /\ Truthy(ArgsOf(r))
        /\ result[r].some /\ result[r].val.ok
        /\ DictGetKey(USER_INSTRUCTIONS, UserOf(r)) = Some(<<"y", WS>>)

C20_InstructionsCombined ==
    [][\A r \in Handlers :
            (pc[r] = "fetch_tasks" /\ pc'[r] = "generate")
            => LET stored == DictGetKey(USER_INSTRUCTIONS, UserOf(r))
                   extra == ArgsOf(r)
                   block == prompt'[r].val.instructions_block
               IN  /\ (stored.some /\ extra.some)
                      => block = Strip(stored.val \o <<SEPARATOR>> \o extra.val)
                   /\ (stored.some /\ ~extra.some) => block = Strip(stored.val)
                   /\ (~stored.some /\ extra.some) => block = Strip(extra.val)
                   /\ (~stored.some /\ ~extra.some) => block = NO_INSTRUCTIONS]_vars

C20_Witness ==
    \E r \in Handlers :
        /\ IsPlan(r) /\ pc[r] = "generate"
        /\ DictGetKey(USER_INSTRUCTIONS, UserOf(r)) = Some(<<"y", WS>>)
        /\ ArgsOf(r) = Some(<<"x">>)
        /\ prompt[r].val.instructions_block = <<"y", WS, SEPARATOR, "x">>

\* C14: for every list of planning items and every fallback, the resolver
\* returns the fallback when no item has a start or an end with a timezone,
\* and a timezone carried by an item when one has; so, whenever the fallback
\* differs from the timezones the items carry, it returns the fallback if and
\* only if no item carries one.
C14_FallbackIffNoTimezone ==
    (call.some /\ value.some /\ call.val.fn = "_detect_timezone")
    => LET items == call.val.items
           fallback == call.val.fallback
           carried ==
               {items[i].start.val.tz.val : i \in {k \in DOMAIN items : HasTz(items[k].start)}}
               \cup {items[i].end.val.tz.val : i \in {k \in DOMAIN items : HasTz(items[k].end)}}
       IN  /\ carried = {} => value.val = fallback
           /\ carried # {} => value.val \in carried
           /\ fallback \notin carried => (value.val = fallback <=> carried = {})

\* a list whose one timezone is on the end of its second item
C14_Witness ==
    /\ call.some /\ value.some /\ call.val.fn = "_detect_timezone"
    /\ Len(call.val.items) = 2
    /\ ~HasTz(call.val.items[1].start) /\ ~HasTz(call.val.items[1].end)
    /\ ~HasTz(call.val.items[2].start) /\ HasTz(call.val.items[2].end)
    /\ call.val.fallback = UTC
    /\ value.val = call.val.items[2].end.val.tz.val

\* C17: the planning item a raw task or event becomes has a title that is a
\* non-empty text, and a raw title that is missing, null or empty becomes
\* the placeholder.
C17_TitlesNeverEmpty ==
    (call.some /\ value.some /\ call.val.fn \in {"task_item", "event_item"})
    => LET raw == IF call.val.fn = "task_item"
                  THEN call.val.raw.content ELSE call.val.raw.summary
       IN  /\ value.val.title.some
           /\ value.val.title.val # <<>>
           /\ raw \in {JMissing, JNull, JVal(<<>>)} => value.val.title = Some(UNTITLED)

InFlight == {"fetch_tasks", "generate", "send"}

\* C11: under every interleaving of two handlers, a step of a handler that
\* runs for user a leaves the standing instructions and the last plan of
\* every other user as they were, and the prompt the handler renders is made
\* of the entries of a alone.
C11_OtherUsersUntouched ==
    [][\A r \in DOMAIN pc :
            (pc'[r] # pc[r] /\ pc'[r] # "idle")
            => LET a == IF message[r].some THEN message[r].val.from
                        ELSE message'[r].val.from
               IN  /\ \A b \in Users \ {a} :
                        /\ DictGetKey(USER_INSTRUCTIONS', b) = DictGetKey(USER_INSTRUCTIONS, b)
                        /\ DictGetKey(USER_LAST_PLANS', b) = DictGetKey(USER_LAST_PLANS, b)
                   /\ (pc'[r] = "generate" /\ prompt'[r].val.kind = "revise")
                      => /\ prompt'[r].val.previous_plan = USER_LAST_PLANS[a]
                         /\ prompt'[r].val.instructions_block =
                               InstructionsBlock(DictGetKey(USER_INSTRUCTIONS, a))
                   /\ (pc'[r] = "generate" /\ prompt'[r].val.kind = "build")
                      => prompt'[r].val.instructions_block =
                            InstructionsBlock(plan_instructions(
                                DictGetKey(USER_INSTRUCTIONS, a), ArgsOf(r)))]_vars

\* a /plan of one user has stored its plan while an /adjust_plan of another
\* user, who has other instructions and another plan, waits for the gateway
C11_Witness ==
    \E r \in DOMAIN pc, q \in DOMAIN pc :
        /\ IsPlan(r) /\ pc[r] = "send" /\ result[r] = Some(Return(<<"A">>))
        /\ IsAdjust(q) /\ pc[q] = "generate"
        /\ UserOf(r) # UserOf(q)
        /\ USER_LAST_PLANS[UserOf(r)] = <<"A">>
        /\ USER_LAST_PLANS[UserOf(q)] = <<"A", "A">>
        /\ prompt[q].val.previous_plan = <<"A", "A">>
        /\ UserOf(q) \in DOMAIN USER_INSTRUCTIONS
        /\ UserOf(r) \notin DOMAIN USER_INSTRUCTIONS

\* C12: when the gateway call of a handler returns a text while another
\* handler of the same user is in flight, that text becomes the stored last
\* plan of the user, also when it revises a plan that is no longer the stored
\* one; the stored plan is always the text of the handler that wrote last.
C12_LastWriterWins ==
    [][\A r \in DOMAIN pc :
            (/\ GatewayStep(r) /\ result'[r].some /\ result'[r].val.ok
             /\ \E q \in DOMAIN pc \ {r} :
                    pc[q] \in InFlight /\ UserOf(q) = UserOf(r))
            => /\ USER_LAST_PLANS'[UserOf(r)] = result'[r].val.text
               /\ returned'[UserOf(r)] = Some(USER_LAST_PLANS'[UserOf(r)])]_vars

\* an /adjust_plan read plan A, a /plan of the same user then stored AA, and
\* the revision of A, returned last, is the stored plan
C12_Witness ==
    \E r \in DOMAIN pc, q \in DOMAIN pc :
        /\ IsAdjust(r) /\ pc[r] = "send" /\ IsPlan(q) /\ pc[q] = "send"
        /\ UserOf(r) = UserOf(q)
        /\ result[q] = Some(Return(<<"A", "A">>))
        /\ result[r] = Some(Return(<<"A">>))
        /\ prompt[r].some /\ prompt[r].val.previous_plan = <<"A">>
        /\ USER_LAST_PLANS[UserOf(r)] = <<"A">>

\* C13: while one handler is suspended in an external call and no other
\* handler runs, the polling loop can dispatch a message of every other
\* user.
C13_SuspendedHandlerBlocksNoOne ==
    \A r \in DOMAIN pc :
        (pc[r] \in InFlight /\ \A q \in DOMAIN pc \ {r} : pc[q] = "idle")
        => \A m \in ConcurrentMessages :
              m.from # UserOf(r) => ENABLED dispatch_message(Poller, m)

\* C21: the prompt build_plan renders has an events block and a tasks
\* block: the events block has one line per event, in the order given, or is
\* the one "no events" line; the tasks block has one line per task, in the
\* order given and numbered from 1, or is the one "no tasks" line; neither
\* block is empty.
C21_PromptBlocks ==
    (call.some /\ value.some /\ call.val.fn = "build_plan")
    => LET events == call.val.events
           tasks == call.val.tasks
           events_block == value.val.events_block
           tasks_block == value.val.tasks_block
       IN  /\ events_block # <<>> /\ tasks_block # <<>>
           /\ events = <<>> => events_block = NO_EVENTS
           /\ events # <<>>
              => /\ Len(events_block) = Len(events)
                 /\ \A i \in DOMAIN events :
                        /\ events_block[i].bullet = "-"
                        /\ events_block[i].title = events[i].title.val
           /\ tasks = <<>> => tasks_block = NO_TASKS
           /\ tasks # <<>>
              => /\ Len(tasks_block) = Len(tasks)
                 /\ \A i \in DOMAIN tasks :
                        /\ tasks_block[i].idx = i
                        /\ tasks_block[i].title = tasks[i].title.val

\* two events given as e2, e1 and no task: two event lines in that order
\* and the "no tasks" line
C21_Witness ==
    /\ call.some /\ value.some /\ call.val.fn = "build_plan"
    /\ call.val.tasks = <<>>
    /\ Len(call.val.events) = 2
    /\ call.val.events[1].title = Some(<<"e2">>)
    /\ call.val.events[2].title = Some(<<"e1">>)
    /\ value.val.events_block[1].title = <<"e2">>
    /\ value.val.events_block[2].title = <<"e1">>
    /\ value.val.tasks_block = NO_TASKS

\* C22: the stored last plan of a user is never the empty text, and an
\* /adjust_plan with modifications is answered "plan first" only for a user
\* for whom no plan was ever stored.
C22_StoredPlanNeverEmpty ==
    /\ \A u \in DOMAIN USER_LAST_PLANS : USER_LAST_PLANS[u] # <<>>
    /\ \A r \in Handlers :
          (IsAdjust(r) /\ Truthy(ArgsOf(r)) /\ Answering(r, MSG_PLAN_FIRST))
          => UserOf(r) \notin DOMAIN USER_LAST_PLANS

\* the offset as a number: None before the first update
OffsetNumber(off) == IF off.some THEN off.val ELSE 0

\* C23: in the polling loop the update ids handed to dispatch_message are
\* strictly increasing, so none is dispatched twice and they go in the order
\* received; while a message is dispatched the offset is already its
\* update_id + 1; every update with a message that the offset has passed was
\* dispatched; the offset never decreases; and a failed getUpdates leaves the
\* offset as it was.
C23_PollingLoop ==
    /\ [](/\ \A i \in DOMAIN dispatched, j \in DOMAIN dispatched :
                i < j => dispatched[i] < dispatched[j]
          /\ poll_pc = "dispatch"
             => /\ offset = Some(update.val.update_id + 1)
                /\ dispatched[Len(dispatched)] = update.val.update_id
          /\ \A id \in transport.with_message :
                id < OffsetNumber(offset) => \E i \in DOMAIN dispatched : dispatched[i] = id)
    /\ [][/\ OffsetNumber(offset') >= OffsetNumber(offset)
          /\ (poll_pc = "getUpdates" /\ poll_pc' = "sleep") => offset' = offset
          /\ dispatched' # dispatched
             => /\ dispatched' = Append(dispatched, Head(updates).update_id)
                /\ offset' = Some(Head(updates).update_id + 1)]_vars

\* update 1 was dispatched, the next getUpdates failed while the transport
\* holds update 2, and the offset is still 2
C23_Witness ==
    /\ poll_pc = "sleep"
    /\ dispatched = <<1>>
    /\ offset = Some(2)
    /\ \E i \in DOMAIN transport.pending :
          /\ transport.pending[i].update_id = 2
          /\ transport.pending[i].message.some

====
